---- MODULE Spec2Model ----
(***************************************************************************)
(* esshader: a Shadertoy-style fragment shader runner on X11 + EGL + GLES2. *)
(* The model follows src/esshader.c: main parses its options, startup opens *)
(* the graphics session and builds the shader program, the main loop drains *)
(* the X event queue, renders a frame and samples the monotonic clock, and  *)
(* shutdown releases the session.                                           *)
(*                                                                         *)
(* Every API call a step issues is recorded in `issued` (the calls of the   *)
(* latest step, in order), so that properties can speak about the calls.   *)
(***************************************************************************)
EXTENDS Integers, Sequences, FiniteSets

\* ---------------------------------------------------------------- bounds
\* Frames modelled per run.
MaxFrames == 2
\* Half seconds the clock advances per run.
MaxTicks == 2
\* X events delivered to the window per run.
MaxEvents == 2
\* Largest info-log length the driver reports.
MaxLogLen == 2

\* ------------------------------------------------------- program constants
\* exit(EXIT_FAILURE) in die.
EXIT_FAILURE == 1
\* return 0 in main.
EXIT_SUCCESS == 0
\* exit status of a process that has not exited yet (model value).
Running == 0 - 1
\* glGetUniformLocation's answer for a name that is no active uniform.
Absent == 0 - 1
\* nanoseconds per second, the borrow of timespec_diff.
NSEC_PER_SEC == 1000000000
\* microseconds per second, the unit elapsed time is modelled in.
USEC_PER_SEC == 1000 * 1000
\* significand width of the C float the frame counter is converted to.
FloatMantissaBits == 24
FloatExactMax == 2 ^ FloatMantissaBits
\* the frame count of a run that has rendered right up to the last integer a
\* float counts exactly
LongRunFrames == FloatExactMax - 1

\* The clock moves in half seconds, so that tv_nsec both carries and borrows.
Quantum == NSEC_PER_SEC \div 2

\* main's defaults for the window size.
DEFAULT_WIDTH == 640
DEFAULT_HEIGHT == 360
\* What atoi makes of the arguments given to --width and --height.
WidthArgs == {0, 800}
HeightArgs == {0 - 600, 600}
\* The sizes the X screen may have (DisplayWidth, DisplayHeight).
DisplaySizes == {<<1920, 1080>>, <<1280, 720>>}
\* The fragment bodies: the one config.h builds in, and the text of the
\* --source file; NoSource is program_source = NULL.
BuiltinBody == "config.h default_fragment_shader"
UserText == "text of the --source file"
NoSource == "NULL"

\* Window sizes the X server reports (XGetWindowAttributes, ConfigureNotify).
WindowSizes == {<<640, 360>>, <<800, 360>>}

\* What an uninitialised struct timespec may hold.
IndeterminateTimes ==
    { [tv_sec |-> 7, tv_nsec |-> 0],
      [tv_sec |-> 0 - 3, tv_nsec |-> Quantum] }

\* Resolved locations: each uniform is either absent or at its own slot.
Locations(slot) == {Absent, slot}

\* X events the window has selected (ExposureMask, StructureNotifyMask,
\* KeyPressMask, PointerMotionMask).
KeyEvents ==
    { [type |-> "KeyPress", keycode |-> k, shift |-> s, width |-> 0, height |-> 0] :
        <<k, s>> \in {<<"Escape", FALSE>>, <<"q", FALSE>>, <<"q", TRUE>>} }
ConfigureEvents ==
    { [type |-> "ConfigureNotify", keycode |-> "", shift |-> FALSE,
       width |-> sz[1], height |-> sz[2]] : sz \in WindowSizes }
OtherEvents ==
    { [type |-> t, keycode |-> "", shift |-> FALSE, width |-> 0, height |-> 0] :
        t \in {"MotionNotify"} }
XEvents == KeyEvents \cup ConfigureEvents \cup OtherEvents

\* ------------------------------------------------------------------ state
VARIABLES
    pc,              \* where main is
    exit_status,     \* Running, or the status the process exited with
    help,            \* main returned from the usage branch
    stderr,          \* what was written to the error stream, in order
    session,         \* the session handles startup has obtained
    current,         \* eglMakeCurrent made the context current
    setup_failed,    \* the setup step whose operation failed (0: none)
    build_failed,    \* the build stage whose status was failure ("none")
    log_len,         \* GL_INFO_LOG_LENGTH as read on that failure
    shader_program,  \* the program object exists (linked, not deleted)
    uniform_res, uniform_gtime, uniform_frame,
    viewport_width, viewport_height,
    frames,          \* static int frames
    start, cur,      \* main's timespecs; cur_set: cur was ever written
    cur_set,
    done,            \* process_events' local
    queue,           \* the X event queue of the connection
    now, ticks,      \* CLOCK_MONOTONIC as last read, and the half seconds passed
    arrivals,        \* events delivered so far
    issued,          \* the API calls of the latest step, in order
    resize_call,     \* the arguments of the latest step's resize_viewport call
    render_calls,    \* how many times render was called
    abstime,         \* render's argument on the latest call, in microseconds
    prev_abstime,    \* and on the call before
    closed,          \* the teardown calls made so far, in order
    width, height,   \* startup's parameters, while startup runs
    fullscreen,
    program_source,  \* main's local: the text read from the --source file
    default_fragment_shader,  \* the fragment body startup compiles
    draws, swaps,    \* glDrawArrays and eglSwapBuffers calls made so far
    gl_viewport,     \* <<w, h>> of the latest glViewport call, <<>> before it
    gl_resolution    \* <<x, y, z>> of the latest glUniform3f call, <<>> before

vars == <<pc, exit_status, help, stderr, session, current, setup_failed,
          build_failed, log_len, shader_program, uniform_res, uniform_gtime,
          uniform_frame, viewport_width, viewport_height, frames, start, cur,
          cur_set, done, queue, now, ticks, arrivals, issued, resize_call,
          render_calls, abstime, prev_abstime, closed, width, height,
          fullscreen, program_source, default_fragment_shader, draws, swaps,
          gl_viewport, gl_resolution>>

\* groups left alone together
sessionVars == <<session, current, setup_failed>>
buildVars == <<build_failed, log_len, shader_program, uniform_res,
               uniform_gtime, uniform_frame>>
viewportVars == <<viewport_width, viewport_height, gl_viewport, gl_resolution>>
clockVars == <<start, cur, cur_set>>
frameVars == <<frames, render_calls, abstime, prev_abstime, draws, swaps>>
envVars == <<queue, now, ticks, arrivals>>
startupVars == <<width, height, fullscreen>>
sourceVars == <<program_source, default_fragment_shader>>

Zero == [tv_sec |-> 0, tv_nsec |-> 0]

Call(fn, args) == [fn |-> fn, args |-> args]

\* The globals and main's locals before main's first statement.
Init ==
    /\ pc = "main"
    /\ exit_status = Running
    /\ help = FALSE
    /\ stderr = <<>>
    /\ session = {}
    /\ current = FALSE
    /\ setup_failed = 0
    /\ build_failed = "none"
    /\ log_len = 0
    /\ shader_program = FALSE
    /\ uniform_res = 0 /\ uniform_gtime = 0 /\ uniform_frame = 0
    /\ viewport_width = 0 - 1 /\ viewport_height = 0 - 1
    /\ gl_viewport = <<>> /\ gl_resolution = <<>>
    /\ frames = 0
    /\ start = Zero /\ cur = Zero /\ cur_set = FALSE
    /\ done = FALSE
    /\ queue = <<>>
    /\ now = Zero /\ ticks = 0
    /\ arrivals = 0
    /\ issued = <<>>
    /\ resize_call = <<>>
    /\ render_calls = 0
    /\ abstime = 0 /\ prev_abstime = 0
    /\ closed = <<>>
    /\ width = 0 /\ height = 0 /\ fullscreen = FALSE
    /\ program_source = NoSource
    /\ default_fragment_shader = BuiltinBody
    /\ draws = 0 /\ swaps = 0

\* ------------------------------------------------------------ environment
\* CLOCK_MONOTONIC after `adv` more half seconds. The clock is observed only
\* when it is read, so it advances in the steps that read it.
Advance(adv) ==
    LET n == now.tv_sec * 2 + now.tv_nsec \div Quantum + adv
    IN [tv_sec |-> n \div 2, tv_nsec |-> (n % 2) * Quantum]

\* The X server delivers an event the window selected. The queue is observed
\* only by XPending, so deliveries are modelled where process_events polls.
Arrive ==
    /\ pc = "XPending"
    /\ arrivals < MaxEvents
    /\ \E ev \in XEvents : queue' = Append(queue, ev)
    /\ arrivals' = arrivals + 1
    /\ issued' = <<>> /\ resize_call' = <<>>
    /\ UNCHANGED <<pc, exit_status, help, stderr, sessionVars, buildVars,
                   viewportVars, clockVars, frameVars, done, now, ticks,
                   closed, startupVars, sourceVars>>

\* ------------------------------------------------------------------- die
\* vfprintf(stderr, ...) and exit(EXIT_FAILURE); `before` is what the caller
\* wrote to stderr ahead of the message.
die(before, msg) ==
    /\ stderr' = stderr \o before \o <<msg>>
    /\ exit_status' = EXIT_FAILURE
    /\ pc' = "exited"

\* ------------------------------------------------------------------ main
\* Option parsing: --fullscreen sets the flag, --width and --height replace
\* the default when atoi of the argument is positive, --source reads the
\* file (and dies when it cannot) and makes its text the fragment body, the
\* usage branch returns 0. Then main calls startup(window_width,
\* window_height, fullscreen).
ParseOptions ==
    /\ pc = "main"
    /\ \E outcome \in {"usage", "unreadable", "run"} :
         CASE outcome = "usage" ->
                /\ help' = TRUE
                /\ exit_status' = EXIT_SUCCESS
                /\ pc' = "exited"
                /\ UNCHANGED <<stderr, startupVars, sourceVars>>
           [] outcome = "unreadable" ->
                /\ die(<<>>, "Could not read shader program")
                /\ UNCHANGED <<help, startupVars, sourceVars>>
           [] outcome = "run" ->
                /\ \E temp_width \in WidthArgs, temp_height \in HeightArgs,
                      f \in BOOLEAN, src \in {NoSource, UserText} :
                      /\ width' = IF temp_width > 0 THEN temp_width
                                  ELSE DEFAULT_WIDTH
                      /\ height' = IF temp_height > 0 THEN temp_height
                                   ELSE DEFAULT_HEIGHT
                      /\ fullscreen' = f
                      /\ program_source' = src
                      /\ default_fragment_shader' =
                            IF src # NoSource THEN src ELSE default_fragment_shader
                /\ pc' = "XOpenDisplay"
                /\ UNCHANGED <<help, exit_status, stderr>>
    /\ issued' = <<>> /\ resize_call' = <<>>
    /\ UNCHANGED <<sessionVars, buildVars, viewportVars, clockVars, frameVars,
                   done, envVars, closed>>

\* ---------------------------------------------------------------- startup
\* A setup call whose result startup tests: on failure die, on success keep
\* the handle and go on.
CheckedStep(at, next, step, fn, handles, msg) ==
    /\ pc = at
    /\ \E ok \in BOOLEAN :
         IF ok
         THEN /\ pc' = next
              /\ session' = session \cup handles
              /\ UNCHANGED <<exit_status, stderr, setup_failed>>
         ELSE /\ die(<<>>, msg)
              /\ setup_failed' = step
              /\ UNCHANGED session
    /\ issued' = <<Call(fn, <<>>)>> /\ resize_call' = <<>>
    /\ UNCHANGED <<help, current, buildVars, viewportVars, clockVars,
                   frameVars, done, envVars, closed, startupVars, sourceVars>>

\* step 1
OpenDisplay ==
    CheckedStep("XOpenDisplay", "eglGetDisplay", 1, "XOpenDisplay",
                {"x_display"}, "Unable to open X display.")
\* step 2
GetEglDisplay ==
    CheckedStep("eglGetDisplay", "eglBindAPI", 2, "eglGetDisplay",
                {"egl_display"}, "Unable to get EGL display.")
BindAPI ==
    CheckedStep("eglBindAPI", "eglInitialize", 2, "eglBindAPI",
                {}, "Unable to bind OpenGL ES API to EGL.")
\* step 3
InitializeEgl ==
    CheckedStep("eglInitialize", "eglChooseConfig", 3, "eglInitialize",
                {"egl_initialized"}, "Unable to initialize EGL.")
\* step 4
ChooseConfig ==
    CheckedStep("eglChooseConfig", "eglCreateContext", 4, "eglChooseConfig",
                {}, "Unable to find EGL framebuffer configuration.")
\* step 5
CreateContext ==
    CheckedStep("eglCreateContext", "eglGetConfigAttrib", 5, "eglCreateContext",
                {"egl_context"}, "Unable to create EGL context.")
\* step 6
GetVisualId ==
    CheckedStep("eglGetConfigAttrib", "XGetVisualInfo", 6, "eglGetConfigAttrib",
                {}, "Unable to get X VisualID.")
GetVisualInfo ==
    CheckedStep("XGetVisualInfo", "XCreateWindow", 6, "XGetVisualInfo",
                {}, "Unable to find matching XVisualInfo for framebuffer.")

\* steps 7 and 8: XCreateColormap, XCreateWindow, XStoreName, XMapWindow and
\* XFlush queue requests; Xlib hands back an id at once and reports a
\* failed request later through the error handler, which this program never
\* installs, so there is no result for startup to look at. The window is
\* as large as asked, or as large as the screen when fullscreen is set; for
\* the two screen queries `args` holds the value returned.
\* startup creating the window as large as asked, fullscreen or not.
CreateWindow_ignores_fullscreen ==
    /\ pc = "XCreateWindow"
    /\ pc' = "XMapWindow"
    /\ session' = session \cup {"x_window"}
    /\ \E dsz \in DisplaySizes :
         issued' =
              <<Call("XCreateColormap", <<>>)>>
              \o (IF fullscreen
                  THEN <<Call("DisplayWidth", <<dsz[1]>>),
                         Call("DisplayHeight", <<dsz[2]>>)>>
                  ELSE <<>>)
              \o <<Call("XCreateWindow", <<0, 0, width, height>>)>>
    /\ resize_call' = <<>>
    /\ UNCHANGED <<exit_status, help, stderr, current, setup_failed, buildVars,
                   viewportVars, clockVars, frameVars, done, envVars, closed,
                   startupVars, sourceVars>>

CreateWindow ==
    /\ pc = "XCreateWindow"
    /\ pc' = "XMapWindow"
    /\ session' = session \cup {"x_window"}
    /\ \E dsz \in DisplaySizes :
         LET window_width == IF fullscreen THEN dsz[1] ELSE width
             window_height == IF fullscreen THEN dsz[2] ELSE height
         IN issued' =
              <<Call("XCreateColormap", <<>>)>>
              \o (IF fullscreen
                  THEN <<Call("DisplayWidth", <<dsz[1]>>),
                         Call("DisplayHeight", <<dsz[2]>>)>>
                  ELSE <<>>)
              \o <<Call("XCreateWindow", <<0, 0, window_width, window_height>>)>>
    /\ resize_call' = <<>>
    /\ UNCHANGED <<exit_status, help, stderr, current, setup_failed, buildVars,
                   viewportVars, clockVars, frameVars, done, envVars, closed,
                   startupVars, sourceVars>>

MapWindow ==
    /\ pc = "XMapWindow"
    /\ pc' = "eglCreateWindowSurface"
    /\ issued' = <<Call("XStoreName", <<>>), Call("XMapWindow", <<>>),
                   Call("XFlush", <<>>)>>
    /\ resize_call' = <<>>
    /\ UNCHANGED <<exit_status, help, stderr, sessionVars, buildVars,
                   viewportVars, clockVars, frameVars, done, envVars, closed, startupVars, sourceVars>>

\* step 9
CreateSurface ==
    CheckedStep("eglCreateWindowSurface", "eglMakeCurrent", 9,
                "eglCreateWindowSurface", {"egl_surface"},
                "Unable to create EGL window surface.")

\* step 10: eglMakeCurrent returns EGL_FALSE on failure; startup drops the
\* result and goes on to build the program either way.
MakeCurrent ==
    /\ pc = "eglMakeCurrent"
    /\ \E ok \in BOOLEAN :
         /\ current' = ok
         /\ setup_failed' = IF ok THEN 0 ELSE 10
    /\ pc' = "compile_vertex"
    /\ issued' = <<Call("eglMakeCurrent", <<>>)>> /\ resize_call' = <<>>
    /\ UNCHANGED <<exit_status, help, stderr, session, buildVars, viewportVars,
                   clockVars, frameVars, done, envVars, closed, startupVars, sourceVars>>

\* ------------------------------------------------------------ the build
\* compile_shader printing every log that is not empty (len > 0).
compile_shader_any_log(stage, at, next, sources) ==
    /\ pc = at
    /\ \E success \in BOOLEAN, len \in 0..MaxLogLen :
         IF success
         THEN /\ pc' = next
              /\ UNCHANGED <<exit_status, stderr, build_failed, log_len>>
         ELSE /\ build_failed' = stage
              /\ log_len' = len
              /\ die(IF len > 0 THEN <<"info log">> ELSE <<>>,
                     "Error compiling shader.")
    /\ issued' = <<Call("glCreateShader", <<>>), Call("glShaderSource", sources),
                   Call("glCompileShader", <<>>)>>
    /\ resize_call' = <<>>
    /\ UNCHANGED <<help, sessionVars, shader_program, uniform_res,
                   uniform_gtime, uniform_frame, viewportVars, clockVars,
                   frameVars, done, envVars, closed, startupVars, sourceVars>>

\* compile_shader: create, source, compile, read GL_COMPILE_STATUS; on
\* failure read GL_INFO_LOG_LENGTH, print the log when it is longer than 1,
\* and die. With no current context the status read is indeterminate, which
\* the choice of `success` covers as well.
compile_shader(stage, at, next, sources) ==
    /\ pc = at
    /\ \E success \in BOOLEAN, len \in 0..MaxLogLen :
         IF success
         THEN /\ pc' = next
              /\ UNCHANGED <<exit_status, stderr, build_failed, log_len>>
         ELSE /\ build_failed' = stage
              /\ log_len' = len
              /\ die(IF len > 1 THEN <<"info log">> ELSE <<>>,
                     "Error compiling shader.")
    /\ issued' = <<Call("glCreateShader", <<>>), Call("glShaderSource", sources),
                   Call("glCompileShader", <<>>)>>
    /\ resize_call' = <<>>
    /\ UNCHANGED <<help, sessionVars, shader_program, uniform_res,
                   uniform_gtime, uniform_frame, viewportVars, clockVars,
                   frameVars, done, envVars, closed, startupVars, sourceVars>>

CompileVertex ==
    compile_shader("vertex", "compile_vertex", "compile_fragment",
                   <<"common_shader_header", "vertex_shader_body">>)

\* startup compiling the built-in body whatever --source gave.
CompileFragment_builtin_only ==
    compile_shader("fragment", "compile_fragment", "link",
                   <<"common_shader_header", "fragment_shader_header",
                     BuiltinBody, "fragment_shader_footer">>)

CompileFragment ==
    compile_shader("fragment", "compile_fragment", "link",
                   <<"common_shader_header", "fragment_shader_header",
                     default_fragment_shader, "fragment_shader_footer">>)

\* glCreateProgram, attach, link, read GL_LINK_STATUS; on failure print the
\* log when it is longer than 1, and die.
LinkProgram ==
    /\ pc = "link"
    /\ \E success \in BOOLEAN, len \in 0..MaxLogLen :
         IF success
         THEN /\ pc' = "resolve"
              /\ shader_program' = TRUE
              /\ UNCHANGED <<exit_status, stderr, build_failed, log_len>>
         ELSE /\ build_failed' = "link"
              /\ log_len' = len
              /\ die(IF len > 1 THEN <<"info log">> ELSE <<>>,
                     "Error linking shader program.")
              /\ UNCHANGED shader_program
    /\ issued' = <<Call("glCreateProgram", <<>>), Call("glAttachShader", <<>>),
                   Call("glAttachShader", <<>>), Call("glLinkProgram", <<>>)>>
    /\ resize_call' = <<>>
    /\ UNCHANGED <<help, sessionVars, uniform_res, uniform_gtime, uniform_frame,
                   viewportVars, clockVars, frameVars, done, envVars, closed, startupVars, sourceVars>>

\* Release the stage objects and the compiler, make the program active and
\* resolve the locations; a uniform the shader never reads resolves to -1.
ResolveLocations ==
    /\ pc = "resolve"
    /\ pc' = "XGetWindowAttributes"
    /\ uniform_res' \in Locations(0)
    /\ uniform_gtime' \in Locations(1)
    /\ uniform_frame' \in Locations(2)
    /\ issued' = <<Call("glDeleteShader", <<>>), Call("glDeleteShader", <<>>),
                   Call("glReleaseShaderCompiler", <<>>),
                   Call("glUseProgram", <<>>), Call("glValidateProgram", <<>>)>>
    /\ resize_call' = <<>>
    /\ UNCHANGED <<exit_status, help, stderr, sessionVars, build_failed, log_len,
                   shader_program, viewportVars, clockVars, frameVars, done,
                   envVars, closed, startupVars, sourceVars>>

\* ------------------------------------------------------- resize_viewport
\* resize_viewport setting the viewport without uploading the resolution.
resize_calls_viewport_only(w, h) ==
    IF viewport_width # w \/ viewport_height # h
    THEN <<Call("glViewport", <<0, 0, w, h>>)>>
    ELSE <<>>

\* The calls resize_viewport(w, h) issues.
resize_calls(w, h) ==
    IF viewport_width # w \/ viewport_height # h
    THEN <<Call("glUniform3f", <<uniform_res, w, h, 0>>),
           Call("glViewport", <<0, 0, w, h>>)>>
    ELSE <<>>

\* The arguments from..to of the latest call of fn among calls, old when
\* there is none: what the GL holds after the calls.
LatestArgs(calls, fn, from, to, old) ==
    LET at == {i \in 1..Len(calls) : calls[i].fn = fn}
    IN IF at = {} THEN old
       ELSE SubSeq(calls[CHOOSE i \in at : \A j \in at : j <= i].args, from, to)

\* resize_viewport without the comparison against the cached size.
resize_viewport_unguarded(w, h) ==
    /\ resize_call' = <<w, h>>
    /\ issued' = <<Call("glUniform3f", <<uniform_res, w, h, 0>>),
                   Call("glViewport", <<0, 0, w, h>>)>>
    /\ viewport_width' = w /\ viewport_height' = h
    /\ gl_resolution' = LatestArgs(issued', "glUniform3f", 2, 4, gl_resolution)
    /\ gl_viewport' = LatestArgs(issued', "glViewport", 3, 4, gl_viewport)

resize_viewport(w, h) ==
    /\ resize_call' = <<w, h>>
    /\ issued' = resize_calls(w, h)
    /\ gl_resolution' = LatestArgs(issued', "glUniform3f", 2, 4, gl_resolution)
    /\ gl_viewport' = LatestArgs(issued', "glViewport", 3, 4, gl_viewport)
    /\ IF viewport_width # w \/ viewport_height # h
       THEN viewport_width' = w /\ viewport_height' = h
       ELSE UNCHANGED <<viewport_width, viewport_height>>

\* The end of startup: query the window's size and size the viewport to it.
GetWindowAttributes ==
    /\ pc = "XGetWindowAttributes"
    /\ \E ok \in BOOLEAN :
         IF ok
         THEN /\ \E sz \in WindowSizes : resize_viewport(sz[1], sz[2])
              /\ pc' = "start_clock"
              \* startup returns: its parameters are gone
              /\ width' = 0 /\ height' = 0 /\ fullscreen' = FALSE
              /\ UNCHANGED <<exit_status, stderr>>
         ELSE /\ die(<<>>, "Unable to get window size.")
              /\ issued' = <<>> /\ resize_call' = <<>>
              /\ UNCHANGED <<viewportVars, startupVars>>
    /\ UNCHANGED <<help, sessionVars, buildVars, clockVars, frameVars, done,
                   envVars, closed, sourceVars>>

\* ------------------------------------------------------------ the clock
\* timespec_diff, in microseconds: the seconds and nanoseconds of
\* stop - start with a borrow when the nanoseconds go negative, then
\* seconds + nanoseconds / 1e9. The conversions to double and to float
\* round; the rounding is modelled as truncation to the microsecond, which
\* like them keeps the order (a <= b gives round(a) <= round(b)).
timespec_diff(from, stop) ==
    LET d == IF stop.tv_nsec - from.tv_nsec < 0
             THEN [tv_sec |-> stop.tv_sec - from.tv_sec - 1,
                   tv_nsec |-> stop.tv_nsec - from.tv_nsec + NSEC_PER_SEC]
             ELSE [tv_sec |-> stop.tv_sec - from.tv_sec,
                   tv_nsec |-> stop.tv_nsec - from.tv_nsec]
    IN d.tv_sec * USEC_PER_SEC + d.tv_nsec \div (NSEC_PER_SEC \div USEC_PER_SEC)

\* monotonic_time(tp): clock_gettime either fills *tp or fails, and then die.
monotonic_time(ok, adv, next) ==
    /\ ticks' = ticks + adv
    /\ now' = Advance(adv)
    /\ IF ok
       THEN pc' = next /\ UNCHANGED <<exit_status, stderr>>
       ELSE die(<<>>, "clock_gettime on CLOCK_MONOTIC failed.")

\* monotonic_time(&start), right after startup.
StartClock ==
    /\ pc = "start_clock"
    /\ \E ok \in BOOLEAN, adv \in 0..(MaxTicks - ticks) :
         /\ monotonic_time(ok, adv, "process_events")
         /\ start' = IF ok THEN now' ELSE start
    /\ issued' = <<>> /\ resize_call' = <<>>
    /\ UNCHANGED <<help, sessionVars, buildVars, viewportVars, cur, cur_set,
                   frameVars, done, queue, arrivals, closed, startupVars, sourceVars>>

\* monotonic_time(&cur), after render.
SampleClock ==
    /\ pc = "monotonic_time"
    /\ \E ok \in BOOLEAN, adv \in 0..(MaxTicks - ticks) :
         /\ monotonic_time(ok, adv, "process_events")
         /\ cur' = IF ok THEN now' ELSE cur
         /\ cur_set' = (cur_set \/ ok)
    /\ issued' = <<>> /\ resize_call' = <<>>
    /\ UNCHANGED <<help, sessionVars, buildVars, viewportVars, start,
                   frameVars, done, queue, arrivals, closed, startupVars, sourceVars>>

\* ----------------------------------------------------------- the events
\* XLookupString: the key symbol of a key event.
XLookupString(ev) ==
    CASE ev.keycode = "Escape" -> "XK_Escape"
      [] ev.keycode = "q" /\ ~ev.shift -> "XK_q"
      [] ev.keycode = "q" /\ ev.shift -> "XK_Q"
      [] OTHER -> "NoSymbol"

\* process_event taking the capital Q for a stop key as well.
process_event_any_q(ev) ==
    IF ev.type = "KeyPress"
    THEN ~(XLookupString(ev) \in {"XK_Escape", "XK_q", "XK_Q"})
    ELSE TRUE

\* process_event stopping on Escape alone.
process_event_escape_only(ev) ==
    IF ev.type = "KeyPress"
    THEN ~(XLookupString(ev) = "XK_Escape")
    ELSE TRUE

\* process_event's return value: false asks the loop to stop.
process_event(ev) ==
    IF ev.type = "KeyPress"
    THEN ~(XLookupString(ev) = "XK_Escape" \/ XLookupString(ev) = "XK_q")
    ELSE TRUE

\* process_events begins: bool done = false.
EnterProcessEvents ==
    /\ pc = "process_events"
    /\ done' = FALSE
    /\ pc' = "XPending"
    /\ issued' = <<>> /\ resize_call' = <<>>
    /\ UNCHANGED <<exit_status, help, stderr, sessionVars, buildVars,
                   viewportVars, clockVars, frameVars, envVars, closed, startupVars, sourceVars>>

\* process_events returning as soon as an event asks for the stop, with the
\* events behind it left in the queue.
NextEvent_returns_at_stop ==
    /\ pc = "XPending"
    /\ queue # <<>>
    /\ LET ev == Head(queue)
       IN /\ IF ev.type = "ConfigureNotify"
             THEN resize_viewport(ev.width, ev.height)
             ELSE /\ issued' = <<>> /\ resize_call' = <<>>
                  /\ UNCHANGED viewportVars
          /\ done' = (done \/ ~process_event(ev))
          /\ pc' = IF process_event(ev) THEN pc ELSE "shutdown"
    /\ queue' = Tail(queue)
    /\ UNCHANGED <<exit_status, help, stderr, sessionVars, buildVars,
                   clockVars, frameVars, now, ticks, arrivals, closed,
                   startupVars, sourceVars>>

\* One turn of process_events' while loop: XPending is non-zero, XNextEvent
\* takes the head of the queue, process_event handles it.
NextEvent ==
    /\ pc = "XPending"
    /\ queue # <<>>
    /\ LET ev == Head(queue)
       IN /\ IF ev.type = "ConfigureNotify"
             THEN resize_viewport(ev.width, ev.height)
             ELSE /\ issued' = <<>> /\ resize_call' = <<>>
                  /\ UNCHANGED viewportVars
          /\ done' = (done \/ ~process_event(ev))
    /\ queue' = Tail(queue)
    /\ UNCHANGED <<pc, exit_status, help, stderr, sessionVars, buildVars,
                   clockVars, frameVars, now, ticks, arrivals, closed, startupVars, sourceVars>>

\* main going on to render whatever process_events returned.
ReturnProcessEvents_ignores_stop ==
    /\ pc = "XPending"
    /\ queue = <<>>
    /\ pc' = "render"
    /\ issued' = <<>> /\ resize_call' = <<>>
    /\ UNCHANGED <<exit_status, help, stderr, sessionVars, buildVars,
                   viewportVars, clockVars, frameVars, done, envVars, closed, startupVars, sourceVars>>

\* XPending is zero: process_events returns !done, and main breaks out of
\* the loop on false.
ReturnProcessEvents ==
    /\ pc = "XPending"
    /\ queue = <<>>
    /\ pc' = IF done THEN "shutdown" ELSE "render"
    /\ issued' = <<>> /\ resize_call' = <<>>
    /\ UNCHANGED <<exit_status, help, stderr, sessionVars, buildVars,
                   viewportVars, clockVars, frameVars, done, envVars, closed, startupVars, sourceVars>>

\* ------------------------------------------------------------- the frame
RECURSIVE FloatUlp(_, _)
\* The spacing of the floats around n >= 0: the least power of two u with
\* n / u below 2^24.
FloatUlp(n, u) == IF n \div u < FloatExactMax THEN u ELSE FloatUlp(n, 2 * u)

\* (float)n for an int n >= 0: n rounded to the nearest float, ties to the
\* even significand.
ToFloat(n) ==
    LET u == FloatUlp(n, 1)
        q == n \div u
        r == n % u
    IN  IF 2 * r < u THEN q * u
        ELSE IF 2 * r > u THEN (q + 1) * u
        ELSE IF q % 2 = 0 THEN q * u ELSE (q + 1) * u

\* The frames of a run that are modelled: the first MaxFrames of a fresh
\* process, or the MaxFrames after LongRunFrames of a long-running one.
WithinRun(n) ==
    \/ n < MaxFrames
    \/ n >= LongRunFrames /\ n < LongRunFrames + MaxFrames

\* render presenting the surface before it draws.
render_calls_swap_first(t) ==
    (IF uniform_gtime >= 0 THEN <<Call("glUniform1f", <<uniform_gtime, t>>)>>
     ELSE <<>>)
    \o <<Call("glUniform1f", <<uniform_frame, ToFloat(frames + 1)>>),
         Call("glClearColor", <<0, 0, 0, 1>>),
         Call("glClear", <<>>),
         Call("eglSwapBuffers", <<>>),
         Call("glEnableVertexAttribArray", <<>>),
         Call("glVertexAttribPointer", <<>>),
         Call("glDrawArrays", <<0, 4>>)>>

\* render uploading the elapsed time without looking at its location.
render_calls_always_time(t) ==
    <<Call("glUniform1f", <<uniform_gtime, t>>),
      Call("glUniform1f", <<uniform_frame, ToFloat(frames + 1)>>),
      Call("glClearColor", <<0, 0, 0, 1>>),
      Call("glClear", <<>>),
      Call("glEnableVertexAttribArray", <<>>),
      Call("glVertexAttribPointer", <<>>),
      Call("glDrawArrays", <<0, 4>>),
      Call("eglSwapBuffers", <<>>)>>

\* The calls render(t) issues, t in microseconds.
render_calls_of(t) ==
    (IF uniform_gtime >= 0 THEN <<Call("glUniform1f", <<uniform_gtime, t>>)>>
     ELSE <<>>)
    \o <<Call("glUniform1f", <<uniform_frame, ToFloat(frames + 1)>>),
         Call("glClearColor", <<0, 0, 0, 1>>),
         Call("glClear", <<>>),
         Call("glEnableVertexAttribArray", <<>>),
         Call("glVertexAttribPointer", <<>>),
         Call("glDrawArrays", <<0, 4>>),
         Call("eglSwapBuffers", <<>>)>>

\* render((float)timespec_diff(&start, &cur)): cur is read before anything
\* was stored in it on the first turn of the loop.
Render ==
    /\ pc = "render"
    /\ WithinRun(frames)
    /\ \E stop \in (IF cur_set THEN {cur} ELSE IndeterminateTimes) :
         LET t == timespec_diff(start, stop)
         IN /\ issued' = render_calls_of(t)
            /\ abstime' = t
    /\ prev_abstime' = abstime
    /\ draws' = draws + Cardinality({i \in 1..Len(issued') :
                                        issued'[i].fn = "glDrawArrays"})
    /\ swaps' = swaps + Cardinality({i \in 1..Len(issued') :
                                        issued'[i].fn = "eglSwapBuffers"})
    /\ frames' = frames + 1
    /\ render_calls' = render_calls + 1
    /\ pc' = "monotonic_time"
    /\ resize_call' = <<>>
    /\ UNCHANGED <<exit_status, help, stderr, sessionVars, buildVars,
                   viewportVars, clockVars, done, envVars, closed, startupVars, sourceVars>>

\* --------------------------------------------------------------- shutdown
\* shutdown closing the display before it destroys the window.
TeardownOrder_display_first ==
    <<"glDeleteProgram", "eglDestroyContext", "eglDestroySurface",
      "eglTerminate", "XCloseDisplay", "XDestroyWindow">>

TeardownOrder ==
    <<"glDeleteProgram", "eglDestroyContext", "eglDestroySurface",
      "eglTerminate", "XDestroyWindow", "XCloseDisplay">>

\* shutdown that forgets the display connection.
Shutdown_leaks_display ==
    /\ pc = "shutdown"
    /\ issued' = [i \in 1..(Len(TeardownOrder) - 1) |-> Call(TeardownOrder[i], <<>>)]
    /\ closed' = closed \o SubSeq(TeardownOrder, 1, Len(TeardownOrder) - 1)
    /\ shader_program' = FALSE
    /\ session' = {"x_display"}
    /\ current' = FALSE
    /\ pc' = "return"
    /\ resize_call' = <<>>
    /\ UNCHANGED <<exit_status, help, stderr, setup_failed, build_failed,
                   log_len, uniform_res, uniform_gtime, uniform_frame,
                   viewportVars, clockVars, frameVars, done, envVars,
                   startupVars, sourceVars>>

\* shutdown: the six teardown calls, in order.
Shutdown ==
    /\ pc = "shutdown"
    /\ issued' = [i \in 1..Len(TeardownOrder) |-> Call(TeardownOrder[i], <<>>)]
    /\ closed' = closed \o TeardownOrder
    /\ shader_program' = FALSE
    /\ session' = {}
    /\ current' = FALSE
    /\ pc' = "return"
    /\ resize_call' = <<>>
    /\ UNCHANGED <<exit_status, help, stderr, setup_failed, build_failed,
                   log_len, uniform_res, uniform_gtime, uniform_frame,
                   viewportVars, clockVars, frameVars, done, envVars,
                   startupVars, sourceVars>>

\* free(program_source); return 0
MainReturn ==
    /\ pc = "return"
    /\ exit_status' = EXIT_SUCCESS
    /\ pc' = "exited"
    /\ issued' = <<>> /\ resize_call' = <<>>
    /\ UNCHANGED <<help, stderr, sessionVars, buildVars, viewportVars,
                   clockVars, frameVars, done, envVars, closed, startupVars, sourceVars>>

\* ---------------------------------------------------------- specification
Next ==
    \/ Arrive
    \/ ParseOptions
    \/ OpenDisplay
    \/ GetEglDisplay
    \/ BindAPI
    \/ InitializeEgl
    \/ ChooseConfig
    \/ CreateContext
    \/ GetVisualId
    \/ GetVisualInfo
    \/ CreateWindow
    \/ MapWindow
    \/ CreateSurface
    \/ MakeCurrent
    \/ CompileVertex
    \/ CompileFragment
    \/ LinkProgram
    \/ ResolveLocations
    \/ GetWindowAttributes
    \/ StartClock
    \/ EnterProcessEvents
    \/ NextEvent
    \/ ReturnProcessEvents
    \/ Render
    \/ SampleClock
    \/ Shutdown
    \/ MainReturn

Spec == Init /\ [][Next]_vars

\* The steps of main from the loop on. The program is one thread of direct
\* calls, none of which waits for input (XPending polls, and the swap is
\* taken to return), so a step that can be taken is taken.
LoopStep ==
    \/ EnterProcessEvents
    \/ NextEvent
    \/ ReturnProcessEvents
    \/ Render
    \/ SampleClock
    \/ Shutdown
    \/ MainReturn

\* A process that has been rendering for a long time: the state at the top
\* of the loop after LongRunFrames turns without a stop key.
LongRunClock == [tv_sec |-> 1000, tv_nsec |-> 0]

InitLongRun ==
    /\ pc = "process_events"
    /\ exit_status = Running
    /\ help = FALSE
    /\ stderr = <<>>
    /\ session = {"x_display", "egl_display", "egl_initialized", "egl_context",
                  "x_window", "egl_surface"}
    /\ current = TRUE
    /\ setup_failed = 0
    /\ build_failed = "none"
    /\ log_len = 0
    /\ shader_program = TRUE
    /\ uniform_res \in Locations(0)
    /\ uniform_gtime \in Locations(1)
    /\ uniform_frame \in Locations(2)
    /\ \E sz \in WindowSizes :
         /\ viewport_width = sz[1] /\ viewport_height = sz[2]
         /\ gl_viewport = sz /\ gl_resolution = sz \o <<0>>
    /\ frames = LongRunFrames
    /\ start = Zero /\ cur = LongRunClock /\ cur_set = TRUE
    /\ done = FALSE
    /\ queue = <<>>
    /\ now = LongRunClock /\ ticks = 0
    /\ arrivals = 0
    /\ issued = <<>>
    /\ resize_call = <<>>
    /\ render_calls = LongRunFrames
    /\ abstime = timespec_diff(Zero, LongRunClock)
    /\ prev_abstime = timespec_diff(Zero, LongRunClock)
    /\ closed = <<>>
    /\ width = 0 /\ height = 0 /\ fullscreen = FALSE
    /\ program_source = NoSource
    /\ default_fragment_shader = BuiltinBody
    /\ draws = LongRunFrames /\ swaps = LongRunFrames

NextLongRun ==
    \/ Arrive
    \/ EnterProcessEvents
    \/ NextEvent
    \/ ReturnProcessEvents
    \/ Render
    \/ SampleClock
    \/ Shutdown
    \/ MainReturn

SpecLongRun == InitLongRun /\ [][NextLongRun]_vars

\* The loop of a fresh process: the state in which main enters the loop,
\* after startup has returned and start was read, whether or not
\* eglMakeCurrent had succeeded and with any of the uniforms absent. The run
\* is one without a shader file, in a window of the default size, whose
\* clock reads zero at the start.
InitLoop ==
    /\ pc = "process_events"
    /\ exit_status = Running
    /\ help = FALSE
    /\ stderr = <<>>
    /\ session = {"x_display", "egl_display", "egl_initialized", "egl_context",
                  "x_window", "egl_surface"}
    /\ current \in BOOLEAN
    /\ setup_failed = IF current THEN 0 ELSE 10
    /\ build_failed = "none"
    /\ log_len = 0
    /\ shader_program = TRUE
    /\ uniform_res \in Locations(0)
    /\ uniform_gtime \in Locations(1)
    /\ uniform_frame \in Locations(2)
    /\ viewport_width = DEFAULT_WIDTH /\ viewport_height = DEFAULT_HEIGHT
    /\ gl_viewport = <<DEFAULT_WIDTH, DEFAULT_HEIGHT>>
    /\ gl_resolution = <<DEFAULT_WIDTH, DEFAULT_HEIGHT, 0>>
    /\ frames = 0
    /\ ticks = 0 /\ now = Zero
    /\ start = now /\ cur = Zero /\ cur_set = FALSE
    /\ done = FALSE
    /\ queue = <<>>
    /\ arrivals = 0
    /\ issued = <<>>
    /\ resize_call = <<>>
    /\ render_calls = 0
    /\ abstime = 0 /\ prev_abstime = 0
    /\ closed = <<>>
    /\ width = 0 /\ height = 0 /\ fullscreen = FALSE
    /\ program_source = NoSource
    /\ default_fragment_shader = BuiltinBody
    /\ draws = 0 /\ swaps = 0

SpecLoopFair == InitLoop /\ [][NextLongRun]_vars /\ WF_vars(LoopStep)

\* ================================================================ claims
\* helpers of the formulas
UniformUploads == {"glUniform1f", "glUniform3f"}
CallsOf(calls, fn) == {i \in 1..Len(calls) : calls[i].fn = fn}
IsRenderStep == issued # <<>> /\ issued[Len(issued)].fn = "eglSwapBuffers"
\* the value of the frame upload of a render step: the call ahead of the clear
UploadedFrame ==
    LET i == CHOOSE i \in 1..Len(issued) : issued[i].fn = "glClearColor"
    IN issued[i - 1].args[2]
StopKey(ev) ==
    ev.type = "KeyPress" /\ XLookupString(ev) \in {"XK_Escape", "XK_q"}
Stopping == {"XPending", "shutdown", "return", "exited"}

\* C1 (as claimed): every elapsed value passed to render is >= 0, and from
\* the very first frame on each value is >= the one passed on the call before
\* (stated of the runs whose setup succeeded).
C1_ElapsedNonNegativeAndMonotone ==
    setup_failed = 0 =>
        /\ render_calls >= 1 => abstime >= 0
        /\ render_calls >= 2 => abstime >= prev_abstime

\* C2 (as claimed): on every exit path, fatal ones included, whatever of the
\* session was opened has been torn down, exactly once, when the process
\* has exited.
C2_TornDownOnEveryExit ==
    pc = "exited" => session = {} /\ closed \in {<<>>, TeardownOrder}

\* C2 (amended): teardown runs exactly once on the normal exit from the loop
\* and never on an exit through die (nor on the usage exit, which opened
\* nothing): a process that dies exits with the handles startup had obtained
\* still open.
C2_TeardownOnNormalExitOnly ==
    /\ closed \in {<<>>, TeardownOrder}
    /\ pc = "exited" =>
         IF exit_status = EXIT_SUCCESS /\ ~help
         THEN closed = TeardownOrder /\ session = {}
         ELSE closed = <<>>

\* C2 witness: a process that left the loop on a stop key after rendering
\* and exited with its session torn down.
C2_NormalExitReached ==
    /\ pc = "exited" /\ exit_status = EXIT_SUCCESS /\ ~help
    /\ render_calls >= 1 /\ closed = TeardownOrder

\* C3 (as claimed): once any of the ten setup steps has failed the process
\* has terminated with a diagnostic, and nothing was built or rendered.
C3_SetupFailureIsFatal ==
    setup_failed # 0 =>
        /\ pc = "exited" /\ exit_status = EXIT_FAILURE /\ stderr # <<>>
        /\ ~shader_program /\ render_calls = 0

\* C4 (as claimed): no uniform upload is issued to an absent (negative)
\* location (stated of the runs whose setup succeeded).
C4_NoUploadToAbsentLocation ==
    setup_failed = 0 =>
        \A i \in 1..Len(issued) :
            issued[i].fn \in UniformUploads => issued[i].args[1] >= 0

\* C5: a resize_viewport call with the cached size issues no call and leaves
\* the cache alone; a call with another size issues exactly one resolution
\* upload (z = 0) and one viewport call and caches the new size.
C5_ResizeDeduplicates ==
    [][resize_call' # <<>> =>
         IF <<viewport_width, viewport_height>> = resize_call'
         THEN /\ issued' = <<>>
              /\ UNCHANGED viewportVars
         ELSE /\ Len(issued') = 2
              /\ issued'[1] = Call("glUniform3f",
                                   <<uniform_res, resize_call'[1], resize_call'[2], 0>>)
              /\ issued'[2] = Call("glViewport",
                                   <<0, 0, resize_call'[1], resize_call'[2]>>)
              /\ <<viewport_width', viewport_height'>> = resize_call']_vars

\* C5 witness: a resize_viewport call that found its size cached already.
C5_DuplicateResizeReached ==
    /\ resize_call # <<>>
    /\ issued = <<>>
    /\ resize_call = <<viewport_width, viewport_height>>
    /\ pc = "XPending"

\* C6: draining a key-press that decodes to Escape or q sets the stop
\* request, and from then on the loop only finishes the drain and stops: no
\* frame is counted, no draw call or swap is issued, render is not reached.
C6_StopKeyStopsWithoutFrame ==
    [][/\ (pc = "XPending" /\ queue # <<>> /\ queue' = Tail(queue)
             /\ StopKey(Head(queue))) => done'
       /\ done =>
            /\ done'
            /\ pc' \in Stopping
            /\ frames' = frames /\ render_calls' = render_calls
            /\ CallsOf(issued', "glDrawArrays") = {}
            /\ CallsOf(issued', "eglSwapBuffers") = {}]_vars

\* C6 witness: the process has exited after a drain that asked for the stop,
\* having rendered before.
C6_StoppedAfterFrames ==
    done /\ pc = "exited" /\ render_calls = MaxFrames /\ arrivals >= 1

\* C7 (as claimed): the frame value uploaded on the k-th render call is k,
\* and the counter equals the number of calls (never reset or decremented);
\* stated of the programs whose frame uniform resolved.
C7_FrameValueIsCallNumber ==
    /\ frames = render_calls
    /\ IsRenderStep /\ uniform_frame >= 0 => UploadedFrame = render_calls

\* C8: a process on its normal way out has made exactly the six teardown
\* calls, each once, in this order, the program first.
C8_TeardownInOrder ==
    pc \in {"return", "exited"} /\ exit_status # EXIT_FAILURE /\ ~help =>
        closed = <<"glDeleteProgram", "eglDestroyContext", "eglDestroySurface",
                   "eglTerminate", "XDestroyWindow", "XCloseDisplay">>

\* C8 witness: shutdown has just run.
C8_ShutdownRan ==
    pc = "return" /\ Len(issued) = 6 /\ issued[1].fn = "glDeleteProgram"

\* C9 (as claimed): the exit status is 0 exactly on a user-initiated exit or
\* the usage exit, and every fatal initialisation, compilation or link
\* failure ends in a non-zero status with a diagnostic on the error stream.
C9_ExitStatus ==
    pc = "exited" =>
        /\ exit_status = EXIT_SUCCESS <=> (done \/ help)
        /\ (setup_failed # 0 \/ build_failed # "none") =>
               exit_status # EXIT_SUCCESS /\ stderr # <<>>

\* C10: a failed compile or link status ends the process with a failure
\* status before the loop is entered (no clock read, no frame), and the
\* driver's log is on the error stream, ahead of the message, exactly when
\* its reported length is above 1.
C10_BuildFailureIsFatal ==
    build_failed # "none" =>
        /\ pc = "exited" /\ exit_status = EXIT_FAILURE
        /\ render_calls = 0 /\ frames = 0 /\ ticks = 0 /\ ~cur_set
        /\ stderr = (IF log_len > 1 THEN <<"info log">> ELSE <<>>)
                    \o <<IF build_failed = "link"
                         THEN "Error linking shader program."
                         ELSE "Error compiling shader.">>

\* C10 witness: a stage failed to compile with a log of trivial length.
C10_CompileFailedTrivialLog ==
    build_failed \in {"vertex", "fragment"} /\ log_len = 1 /\ pc = "exited"

\* the names of the calls of the latest step, in order
IssuedNames == [i \in 1..Len(issued) |-> issued[i].fn]

\* C11: a render call made while the elapsed-time uniform is absent issues
\* no upload to it and still does the rest of the frame: the frame-counter
\* upload, the clear, the quad, the draw and the swap.
C11_AbsentTimeIsSkipped ==
    IsRenderStep /\ uniform_gtime < 0 =>
        /\ IssuedNames = <<"glUniform1f", "glClearColor", "glClear",
                           "glEnableVertexAttribArray", "glVertexAttribPointer",
                           "glDrawArrays", "eglSwapBuffers">>
        /\ issued[1].args = <<uniform_frame, frames>>
        /\ pc = "monotonic_time"

\* C11 witness: a frame rendered by a program whose iTime did not resolve
\* while its iFrame did.
C11_FrameWithoutTime ==
    /\ IsRenderStep /\ uniform_gtime < 0 /\ uniform_frame >= 0
    /\ setup_failed = 0 /\ frames = MaxFrames

\* the value a screen query of the latest step returned
Returned(fn) == issued[CHOOSE i \in 1..Len(issued) : issued[i].fn = fn].args[1]

\* C12: the window is created with the screen's full width and height when
\* fullscreen is set, and with exactly the requested width and height when
\* it is not.
C12_FullscreenOverridesSize ==
    pc = "XMapWindow" =>
        LET c == issued[Len(issued)]
        IN /\ c.fn = "XCreateWindow"
           /\ IF fullscreen
              THEN /\ c.args[3] = Returned("DisplayWidth")
                   /\ c.args[4] = Returned("DisplayHeight")
                   /\ <<c.args[3], c.args[4]>> \in DisplaySizes
              ELSE /\ c.args[3] = width /\ c.args[4] = height
                   /\ CallsOf(issued, "DisplayWidth") = {}

\* C12 witness: a fullscreen window created larger than the size asked for.
C12_FullscreenWindowCreated ==
    /\ pc = "XMapWindow" /\ fullscreen
    /\ width = DEFAULT_WIDTH /\ height = DEFAULT_HEIGHT
    /\ issued[Len(issued)].args = <<0, 0, 1920, 1080>>

\* C13: the fragment stage is compiled from the common header, the uniform
\* block, the body (the --source text when one was given, else the built-in
\* one) and the footer, in this order; the vertex stage from the common
\* header and the vertex body.
C13_SourcesInOrder ==
    /\ (pc = "compile_fragment" \/ build_failed = "vertex") =>
           issued[2] = Call("glShaderSource",
                            <<"common_shader_header", "vertex_shader_body">>)
    /\ (pc = "link" \/ build_failed = "fragment") =>
           issued[2] = Call("glShaderSource",
                            <<"common_shader_header", "fragment_shader_header",
                              IF program_source # NoSource THEN UserText
                              ELSE BuiltinBody,
                              "fragment_shader_footer">>)

\* C13 witness: the fragment stage compiled with a --source text as body.
C13_UserBodyCompiled ==
    pc = "link" /\ program_source = UserText /\ current

\* a step of the drain: process_events takes the head of the queue
DrainStep == pc = "XPending" /\ queue # <<>> /\ queue' = Tail(queue)
\* what a handled event may not touch unless it is a stop key or a resize
ProgramState ==
    <<pc, exit_status, help, stderr, sessionVars, buildVars, clockVars,
      frameVars, now, ticks, arrivals, closed, startupVars, sourceVars>>
EscapeOrLowerQ(ev) ==
    /\ ev.type = "KeyPress"
    /\ ev.keycode = "Escape" \/ (ev.keycode = "q" /\ ~ev.shift)

\* C14: handling an event asks for the stop exactly when it is a key-press
\* of Escape or of lowercase q; a configure event calls resize_viewport with
\* its width and height and nothing more; any other event or key changes
\* nothing, and the loop goes on.
C14_OnlyEscapeAndQStop ==
    [][DrainStep =>
         LET ev == Head(queue)
         IN /\ done' = (done \/ EscapeOrLowerQ(ev))
            /\ UNCHANGED ProgramState
            /\ IF ev.type = "ConfigureNotify"
               THEN /\ resize_call' = <<ev.width, ev.height>>
                    /\ <<viewport_width', viewport_height'>> = <<ev.width, ev.height>>
               ELSE /\ resize_call' = <<>> /\ issued' = <<>>
                    /\ UNCHANGED viewportVars]_vars

\* C14 witness: a configure event was just handled (it resized the viewport
\* and asked for no stop) and a capital Q is the next event to handle.
C14_ConfigureHandledThenOtherKey ==
    /\ pc = "XPending" /\ ~done /\ render_calls >= 1
    /\ resize_call # <<>> /\ issued # <<>>
    /\ queue # <<>> /\ Head(queue).type = "KeyPress" /\ Head(queue).shift

\* C15: process_events returns only with the queue empty, also after a stop
\* key: the events behind it are still taken and handled (a configure event
\* among them resizes the viewport), and the call reports the stop exactly
\* when one of the events it drained asked for it.
C15_DrainsWholeQueue ==
    [][/\ (pc = "process_events" /\ pc' # pc) => pc' = "XPending" /\ ~done'
       /\ (pc = "XPending" /\ pc' # pc) =>
             /\ queue = <<>> /\ queue' = <<>>
             /\ pc' = IF done THEN "shutdown" ELSE "render"
       /\ DrainStep =>
             /\ pc' = pc
             /\ done' = (done \/ StopKey(Head(queue)))
             /\ Head(queue).type = "ConfigureNotify" =>
                   /\ resize_call' = <<Head(queue).width, Head(queue).height>>
                   /\ viewport_width' = Head(queue).width
                   /\ viewport_height' = Head(queue).height]_vars

\* C15 witness: behind a stop key a configure event was handled and resized
\* the viewport; the drain is over and the call is about to report the stop.
C15_ResizedBehindStopKey ==
    /\ pc = "XPending" /\ done /\ queue = <<>> /\ arrivals = MaxEvents
    /\ resize_call # <<>> /\ Len(issued) = 2

\* the calls of one frame, by name
FrameCallNames ==
    (IF uniform_gtime >= 0 THEN <<"glUniform1f">> ELSE <<>>)
    \o <<"glUniform1f", "glClearColor", "glClear", "glEnableVertexAttribArray",
         "glVertexAttribPointer", "glDrawArrays", "eglSwapBuffers">>

\* C16: a turn of the loop whose drain asked for no stop renders exactly one
\* frame: the uploads of the time (if present) and of the frame counter, the
\* clear, the quad, one draw call, one swap, in this order; the clock is
\* sampled into cur only after that frame's swap; and the draw calls, the
\* swaps and the frame counter are equal in number.
C16_OneFramePerTurn ==
    [][/\ pc' = "render" /\ pc # "render" => pc = "XPending" /\ ~done
       /\ pc = "render" /\ pc' # "render" =>
             /\ pc' = "monotonic_time"
             /\ frames' = frames + 1
             /\ IssuedNames' = FrameCallNames
             /\ UNCHANGED clockVars
       /\ (cur' # cur \/ cur_set' # cur_set) =>
             pc = "monotonic_time" /\ IssuedNames = FrameCallNames
       /\ pc' = "process_events" /\ pc # "process_events" =>
             pc \in {"start_clock", "monotonic_time"}
       /\ draws' = frames' /\ swaps' = frames']_vars

\* C16 witness: the top of the loop after MaxFrames frames, with as many
\* draw calls and swaps made.
C16_FramesDrawnAndSwapped ==
    /\ pc = "process_events" /\ frames = MaxFrames
    /\ draws = MaxFrames /\ swaps = MaxFrames /\ cur_set

\* the positions of main inside the while loop
LoopPcs == {"process_events", "XPending", "render", "monotonic_time"}
StopKeyQueued ==
    pc = "XPending" /\ \E i \in 1..Len(queue) : StopKey(queue[i])

\* C17 (as claimed): the loop is left only through a stop key, with done set,
\* towards shutdown (stated of the runs whose setup succeeded).
C17_LeftOnlyThroughStopKey ==
    [][setup_failed = 0 /\ pc \in LoopPcs /\ pc' \notin LoopPcs =>
          done /\ pc' = "shutdown"]_vars

\* C17 (amended): the loop is left either through a stop key or through the
\* fatal exit of a failed clock read after a frame, which ends the process
\* with a failure status and no teardown. done is set only by handling a
\* queued stop key, and a drain that set nothing goes on to render. A stop
\* key that is in the queue while process_events polls it leads to the normal
\* exit: shutdown has run in full and the status is EXIT_SUCCESS.
C17_StopKeyOrClockFailure ==
    /\ [][/\ pc \in LoopPcs /\ pc' \notin LoopPcs =>
                \/ /\ pc = "XPending" /\ done /\ queue = <<>>
                   /\ pc' = "shutdown"
                \/ /\ pc = "monotonic_time" /\ pc' = "exited"
                   /\ exit_status' = EXIT_FAILURE /\ closed' = <<>>
          /\ done' # done => ~done /\ DrainStep /\ StopKey(Head(queue))
          /\ pc = "XPending" /\ pc' # pc /\ ~done => pc' = "render"]_vars
    /\ StopKeyQueued ~>
          (pc = "exited" /\ exit_status = EXIT_SUCCESS /\ closed = TeardownOrder)

\* C17 witness: the process has exited after MaxFrames frames and a single
\* event, the stop key.
C17_StoppedByTheOnlyEvent ==
    /\ pc = "exited" /\ done /\ arrivals = 1 /\ frames = MaxFrames
    /\ exit_status = EXIT_SUCCESS /\ closed = TeardownOrder

\* the cached viewport size
CachedSize == <<viewport_width, viewport_height>>

\* C18: whenever render is about to be called the cached size is not the
\* (-1, -1) sentinel and is both the size last given to glViewport and the
\* x, y last uploaded to the resolution uniform, with z = 0; the
\* resize_viewport call that ends startup always applies; and the cache, the
\* viewport and the uploaded resolution change only together, to one size.
C18_ViewportInStep ==
    /\ [](pc = "render" =>
            /\ viewport_width # 0 - 1 /\ viewport_height # 0 - 1
            /\ gl_viewport = CachedSize
            /\ gl_resolution = CachedSize \o <<0>>)
    /\ [][/\ pc = "XGetWindowAttributes" /\ pc' = "start_clock" =>
                /\ CachedSize = <<0 - 1, 0 - 1>>
                /\ CachedSize' = resize_call' /\ IssuedNames' = <<"glUniform3f", "glViewport">>
          /\ (\/ CachedSize' # CachedSize
              \/ gl_viewport' # gl_viewport
              \/ gl_resolution' # gl_resolution) =>
                /\ CachedSize' # CachedSize
                /\ gl_viewport' = CachedSize' /\ gl_viewport' # gl_viewport
                /\ gl_resolution' = CachedSize' \o <<0>>
                /\ gl_resolution' # gl_resolution]_vars

\* C18 witness: after a frame, the drain that goes on to the next render call
\* has ended with a configure event that changed the size.
C18_ResizedBeforeRender ==
    /\ pc = "XPending" /\ queue = <<>> /\ ~done /\ frames >= 1
    /\ IssuedNames = <<"glUniform3f", "glViewport">>
    /\ gl_viewport = CachedSize /\ gl_resolution = CachedSize \o <<0>>

\* the calls that need the live session: uploads, viewport, draw and swap
SessionCalls ==
    {"glUniform1f", "glUniform3f", "glViewport", "glDrawArrays", "eglSwapBuffers"}
\* the positions of main after startup resolved the locations and before
\* shutdown has run
LivePcs ==
    {"start_clock", "process_events", "XPending", "render", "monotonic_time",
     "shutdown", "exited"}

\* C19 (as claimed): every uniform upload, viewport call, draw call and swap
\* is made while the session is live: the context is current, the program is
\* linked and active with its locations resolved, and shutdown has not
\* deleted anything yet.
C19_CallsWhileSessionLive ==
    \A i \in 1..Len(issued) :
        issued[i].fn \in SessionCalls =>
            /\ current /\ shader_program
            /\ pc \in LivePcs /\ closed = <<>>

====
